---- MODULE Spec2Model ----
(***************************************************************************)
(* A model of the two word-count programs of the repository:               *)
(*   cc-wc (src/cc-wc/src/main.rs), built from four counter structs, and   *)
(*   ccwc  (src/ccwc/src/main.rs), the same scan written inline.           *)
(* Both programs are run side by side on the same arguments and on the     *)
(* same sequence of read() results, so that their totals can be compared.  *)
(* A byte is a number in 0..255; counters are u64 in the code and stay far *)
(* below 2^64 within the bounds, so they are plain naturals here.  Writing *)
(* to stdout/stderr is modelled by what is written; a failing write (the   *)
(* `?` on write!) is not modelled.                                         *)
(***************************************************************************)
EXTENDS Naturals, Sequences, FiniteSets

VARIABLES
    args,             \* cc-wc/ccwc Args after Args::parse(): the four flags and input
    pc,               \* position in main: "start", "reading", "done", "failed"
    print,            \* the resolved (print_bytes, print_chars, print_lines, print_words)
    metadata,         \* Option<Metadata>: <<>> is None, <<n>> is Some with len() = n
    byte_counter,     \* cc-wc ByteCounter {metadata_found, byte_count}
    char_counter,     \* cc-wc CharCounter {char_count, remaining_bytes_in_char, invalid_chars_found}
    newline_counter,  \* cc-wc NewlineCounter {line_count}
    word_counter,     \* cc-wc WordCounter {word_count, in_word}
    ccwc,             \* ccwc's locals {bytes, lines, words, in_word}
    warning,          \* cc-wc wrote "Warning: Invalid UTF-8 detected" to stderr
    stdout,           \* cc-wc's printed totals, in print order, as <<name, value>> pairs
    ccwc_stdout,      \* ccwc's printed totals, likewise
    fed,              \* history: every byte the source has delivered so far, in order
    nchunks,          \* history: the number of non-empty chunks delivered so far
    last_read         \* history: the last read() result: "none", "Ok", "Eof" or "Err"

vars == <<args, pc, print, metadata, byte_counter, char_counter, newline_counter,
          word_counter, ccwc, warning, stdout, ccwc_stdout, fed, nchunks, last_read>>

----------------------------------------------------------------------------
(* Bounds of the model *)

\* the longest stream (in bytes) the source delivers in Spec
MaxLen == 3
\* the longest stream the source delivers in SpecStream
MaxStream == 4
\* the longest well-formed UTF-8 stream the source delivers in SpecUtf8
MaxUtf8 == 10
\* the longest chunk one read() returns
MaxChunk == 2
\* the largest file length the metadata reports
MaxHint == 2

\* Representative bytes: 'a', ' ', '\n', vertical tab, a continuation byte,
\* a 2-, 3- and 4-byte lead, and a byte that is never valid.
Alphabet == {97, 32, 10, 11, 128, 195, 226, 240, 255}
\* 'a', ' ', '\n', a continuation byte and a 3-byte lead
CoreAlphabet == {97, 32, 10, 128, 226}
\* 'a', a continuation byte, and a 2-, 3- and 4-byte lead
Utf8Alphabet == {97, 128, 195, 226, 240}
AllBytes == 0..255
\* "hello world\n"
HelloWorld == <<104, 101, 108, 108, 111, 32, 119, 111, 114, 108, 100, 10>>

None == <<>>
Some(n) == <<n>>

Min(a, b) == IF a < b THEN a ELSE b
Range(s) == {s[i] : i \in DOMAIN s}
IsPrefix(s, t) == Len(s) <= Len(t) /\ s = SubSeq(t, 1, Len(s))

----------------------------------------------------------------------------
(* Argument resolution *)

Inputs == {"stdin", "file"}

\* main, lines 31-38 (the same text in both programs)
ResolveFlagsAllTrue(a) ==
    IF ~(a.print_bytes \/ a.print_chars \/ a.print_lines \/ a.print_words)
    THEN [print_bytes |-> TRUE, print_chars |-> TRUE,
          print_lines |-> TRUE, print_words |-> TRUE]
    ELSE [print_bytes |-> a.print_bytes, print_chars |-> a.print_chars,
          print_lines |-> a.print_lines, print_words |-> a.print_words]
ResolveFlags(a) ==
    IF ~(a.print_bytes \/ a.print_chars \/ a.print_lines \/ a.print_words)
    THEN [print_bytes |-> TRUE, print_chars |-> FALSE,
          print_lines |-> TRUE, print_words |-> TRUE]
    ELSE [print_bytes |-> a.print_bytes, print_chars |-> a.print_chars,
          print_lines |-> a.print_lines, print_words |-> a.print_words]

----------------------------------------------------------------------------
(* cc-wc: ByteCounter *)

ByteCounter_new(meta) ==
    IF meta = None
    THEN [metadata_found |-> FALSE, byte_count |-> 0]
    ELSE [metadata_found |-> TRUE, byte_count |-> meta[1]]
count_bytes_always_adds(self, bytes_read) ==
    [self EXCEPT !.byte_count = @ + bytes_read]
count_bytes(self, bytes_read) ==
    IF ~self.metadata_found
    THEN [self EXCEPT !.byte_count = @ + bytes_read]
    ELSE self

----------------------------------------------------------------------------
(* cc-wc: CharCounter *)

\* byte & (1 << k) == 0
BitClear(byte, k) == (byte \div (2 ^ k)) % 2 = 0

CharCounter_new ==
    [char_count |-> 0, remaining_bytes_in_char |-> 0, invalid_chars_found |-> FALSE]

\* a count_chars that counts a character at its head, not at its last byte
count_chars_byte_counts_heads(self, byte) ==
    IF BitClear(byte, 7)
    THEN [self EXCEPT !.char_count = @ + 1, !.remaining_bytes_in_char = 0]
    ELSE IF BitClear(byte, 6)
    THEN IF self.remaining_bytes_in_char = 0
         THEN [self EXCEPT !.invalid_chars_found = TRUE]
         ELSE [self EXCEPT !.remaining_bytes_in_char = @ - 1]
    ELSE IF BitClear(byte, 5)
    THEN [self EXCEPT !.char_count = @ + 1, !.remaining_bytes_in_char = 1]
    ELSE IF BitClear(byte, 4)
    THEN [self EXCEPT !.char_count = @ + 1, !.remaining_bytes_in_char = 2]
    ELSE IF BitClear(byte, 3)
    THEN [self EXCEPT !.char_count = @ + 1, !.remaining_bytes_in_char = 3]
    ELSE [self EXCEPT !.invalid_chars_found = TRUE, !.remaining_bytes_in_char = 0]
\* a count_chars that flags an ASCII or lead byte that cuts a pending sequence short
count_chars_byte_flags_interrupted(self, byte) ==
    IF BitClear(byte, 7)
    THEN [self EXCEPT !.char_count = @ + 1, !.remaining_bytes_in_char = 0,
                      !.invalid_chars_found = @ \/ self.remaining_bytes_in_char # 0]
    ELSE IF BitClear(byte, 6)
    THEN IF self.remaining_bytes_in_char = 0
         THEN [self EXCEPT !.invalid_chars_found = TRUE]
         ELSE [self EXCEPT !.remaining_bytes_in_char = @ - 1,
                           !.char_count = IF self.remaining_bytes_in_char - 1 = 0
                                          THEN @ + 1 ELSE @]
    ELSE IF BitClear(byte, 3)
    THEN [self EXCEPT !.remaining_bytes_in_char =
                          IF BitClear(byte, 5) THEN 1 ELSE IF BitClear(byte, 4) THEN 2 ELSE 3,
                      !.invalid_chars_found = @ \/ self.remaining_bytes_in_char # 0]
    ELSE [self EXCEPT !.invalid_chars_found = TRUE, !.remaining_bytes_in_char = 0]
\* a count_chars whose invalid-byte branch leaves the pending sequence pending
count_chars_byte_keeps_pending(self, byte) ==
    IF BitClear(byte, 7)
    THEN [self EXCEPT !.char_count = @ + 1, !.remaining_bytes_in_char = 0]
    ELSE IF BitClear(byte, 6)
    THEN IF self.remaining_bytes_in_char = 0
         THEN [self EXCEPT !.invalid_chars_found = TRUE]
         ELSE [self EXCEPT !.remaining_bytes_in_char = @ - 1,
                           !.char_count = IF self.remaining_bytes_in_char - 1 = 0
                                          THEN @ + 1 ELSE @]
    ELSE IF BitClear(byte, 3)
    THEN [self EXCEPT !.remaining_bytes_in_char =
                          IF BitClear(byte, 5) THEN 1 ELSE IF BitClear(byte, 4) THEN 2 ELSE 3]
    ELSE [self EXCEPT !.invalid_chars_found = TRUE]
\* a count_chars whose ASCII branch clears the flag
count_chars_byte_ascii_clears_flag(self, byte) ==
    IF BitClear(byte, 7)
    THEN [self EXCEPT !.char_count = @ + 1, !.remaining_bytes_in_char = 0,
                      !.invalid_chars_found = FALSE]
    ELSE IF BitClear(byte, 6)
    THEN IF self.remaining_bytes_in_char = 0
         THEN [self EXCEPT !.invalid_chars_found = TRUE]
         ELSE [self EXCEPT !.remaining_bytes_in_char = @ - 1,
                           !.char_count = IF self.remaining_bytes_in_char - 1 = 0
                                          THEN @ + 1 ELSE @]
    ELSE IF BitClear(byte, 3)
    THEN [self EXCEPT !.remaining_bytes_in_char =
                          IF BitClear(byte, 5) THEN 1 ELSE IF BitClear(byte, 4) THEN 2 ELSE 3]
    ELSE [self EXCEPT !.invalid_chars_found = TRUE, !.remaining_bytes_in_char = 0]
\* a count_chars that counts every byte as a character
count_chars_byte_counts_bytes(self, byte) ==
    [self EXCEPT !.char_count = @ + 1]
count_chars_byte(self, byte) ==
    IF BitClear(byte, 7)
    THEN \* 0xxxxxxx, ASCII
         [self EXCEPT !.char_count = @ + 1, !.remaining_bytes_in_char = 0]
    ELSE IF BitClear(byte, 6)
    THEN \* 10xxxxxx, UTF-8 tail
         IF self.remaining_bytes_in_char = 0
         THEN [self EXCEPT !.invalid_chars_found = TRUE]
         ELSE [self EXCEPT !.remaining_bytes_in_char = @ - 1,
                           !.char_count = IF self.remaining_bytes_in_char - 1 = 0
                                          THEN @ + 1 ELSE @]
    ELSE IF BitClear(byte, 5)
    THEN \* 110xxxxx, 2-byte head
         [self EXCEPT !.remaining_bytes_in_char = 1]
    ELSE IF BitClear(byte, 4)
    THEN \* 1110xxxx, 3-byte head
         [self EXCEPT !.remaining_bytes_in_char = 2]
    ELSE IF BitClear(byte, 3)
    THEN \* 11110xxx, 4-byte head
         [self EXCEPT !.remaining_bytes_in_char = 3]
    ELSE \* invalid byte
         [self EXCEPT !.invalid_chars_found = TRUE, !.remaining_bytes_in_char = 0]

RECURSIVE count_chars_loop(_, _)
count_chars_loop(self, chunk) ==
    IF chunk = <<>> THEN self
    ELSE count_chars_loop(count_chars_byte(self, Head(chunk)), Tail(chunk))

\* a count_chars that forgets the pending sequence at the start of each chunk
count_chars_resets(self, chunk) ==
    count_chars_loop([self EXCEPT !.remaining_bytes_in_char = 0], chunk)
count_chars(self, chunk) == count_chars_loop(self, chunk)

----------------------------------------------------------------------------
(* cc-wc: NewlineCounter *)

NewlineCounter_new == [line_count |-> 0]

\* memchr_iter(needle, chunk).count()
memchr_count(needle, chunk) == Cardinality({i \in DOMAIN chunk : chunk[i] = needle})

count_newlines_counts_last_line(self, chunk) ==
    [self EXCEPT !.line_count = @ + memchr_count(10, chunk)
                                  + (IF chunk # <<>> /\ chunk[Len(chunk)] # 10
                                     THEN 1 ELSE 0)]
count_newlines(self, chunk) ==
    [self EXCEPT !.line_count = @ + memchr_count(10, chunk)]

----------------------------------------------------------------------------
(* cc-wc: WordCounter *)

WordCounter_new == [word_count |-> 0, in_word |-> FALSE]

\* u8::is_ascii_whitespace: space, tab, line feed, form feed, carriage return
is_ascii_whitespace(byte) == byte \in {32, 9, 10, 12, 13}

count_words_byte(self, byte) ==
    LET is_whitespace == is_ascii_whitespace(byte)
    IN  [word_count |-> self.word_count
                          + (IF ~is_whitespace /\ ~self.in_word THEN 1 ELSE 0),
         in_word |-> ~is_whitespace]

RECURSIVE count_words_loop(_, _)
count_words_loop(self, chunk) ==
    IF chunk = <<>> THEN self
    ELSE count_words_loop(count_words_byte(self, Head(chunk)), Tail(chunk))

\* a count_words that starts every chunk outside a word
count_words_resets(self, chunk) ==
    count_words_loop([self EXCEPT !.in_word = FALSE], chunk)
count_words(self, chunk) == count_words_loop(self, chunk)

----------------------------------------------------------------------------
(* ccwc: the inline scan *)

ccwc_new(meta) ==
    [bytes |-> IF meta = None THEN 0 ELSE meta[1],
     lines |-> 0, words |-> 0, in_word |-> FALSE]

\* byte == b' ' || (byte.wrapping_sub(9) <= 4)
ccwc_is_whitespace(byte) == byte = 32 \/ ((byte + 256 - 9) % 256) <= 4

ccwc_words_byte(self, byte) ==
    LET is_whitespace == ccwc_is_whitespace(byte)
    IN  [self EXCEPT !.words = @ + (IF ~is_whitespace /\ ~self.in_word THEN 1 ELSE 0),
                     !.in_word = ~is_whitespace]

RECURSIVE ccwc_words_loop(_, _)
ccwc_words_loop(self, chunk) ==
    IF chunk = <<>> THEN self
    ELSE ccwc_words_loop(ccwc_words_byte(self, Head(chunk)), Tail(chunk))

\* the body of ccwc's while loop for one non-empty chunk
ccwc_loop_body(self, chunk) ==
    LET b == IF print.print_bytes /\ metadata = None
             THEN [self EXCEPT !.bytes = @ + Len(chunk)] ELSE self
        l == IF print.print_lines
             THEN [b EXCEPT !.lines = @ + memchr_count(10, chunk)] ELSE b
    IN  IF print.print_words THEN ccwc_words_loop(l, chunk) ELSE l

ccwc_output ==
    (IF print.print_lines THEN <<(<<"lines", ccwc.lines>>)>> ELSE <<>>)
    \o (IF print.print_words THEN <<(<<"words", ccwc.words>>)>> ELSE <<>>)
    \o (IF print.print_bytes THEN <<(<<"bytes", ccwc.bytes>>)>> ELSE <<>>)

----------------------------------------------------------------------------
(* cc-wc: main *)

\* the loop body, lines 64-82: each enabled counter is fed the chunk
feed_byte_counter(chunk) ==
    IF print.print_bytes THEN count_bytes(byte_counter, Len(chunk)) ELSE byte_counter
\* a loop body that feeds CharCounter whether or not chars are selected
feed_char_counter_always(chunk) == count_chars(char_counter, chunk)
feed_char_counter(chunk) ==
    IF print.print_chars THEN count_chars(char_counter, chunk) ELSE char_counter
\* a loop body that feeds NewlineCounter whether or not lines are selected
feed_newline_counter_always(chunk) == count_newlines(newline_counter, chunk)
feed_newline_counter(chunk) ==
    IF print.print_lines THEN count_newlines(newline_counter, chunk) ELSE newline_counter
\* a loop body that stops feeding WordCounter once CharCounter saw an invalid byte
feed_word_counter_unless_invalid(chunk) ==
    IF print.print_words /\ ~char_counter.invalid_chars_found
    THEN count_words(word_counter, chunk) ELSE word_counter
feed_word_counter(chunk) ==
    IF print.print_words THEN count_words(word_counter, chunk) ELSE word_counter

\* a warning that looks at the sticky flag alone
cc_wc_warns_flag_only == char_counter.invalid_chars_found
\* lines 85-92: the condition of the warning
cc_wc_warns ==
    char_counter.invalid_chars_found \/ char_counter.remaining_bytes_in_char # 0

\* lines 107-119: the totals printed, in order newline, word, character, byte
cc_wc_output ==
    (IF print.print_lines THEN <<(<<"lines", newline_counter.line_count>>)>> ELSE <<>>)
    \o (IF print.print_words THEN <<(<<"words", word_counter.word_count>>)>> ELSE <<>>)
    \o (IF print.print_chars THEN <<(<<"chars", char_counter.char_count>>)>> ELSE <<>>)
    \o (IF print.print_bytes THEN <<(<<"bytes", byte_counter.byte_count>>)>> ELSE <<>>)

----------------------------------------------------------------------------
(* The state machine *)

InitWith(A) ==
    /\ args \in A
    /\ pc = "start"
    /\ print = [print_bytes |-> FALSE, print_chars |-> FALSE,
                print_lines |-> FALSE, print_words |-> FALSE]
    /\ metadata = None
    /\ byte_counter = ByteCounter_new(None)
    /\ char_counter = CharCounter_new
    /\ newline_counter = NewlineCounter_new
    /\ word_counter = WordCounter_new
    /\ ccwc = ccwc_new(None)
    /\ warning = FALSE
    /\ stdout = <<>>
    /\ ccwc_stdout = <<>>
    /\ fed = <<>>
    /\ nchunks = 0
    /\ last_read = "none"

AllArgs == [print_bytes : BOOLEAN, print_chars : BOOLEAN,
            print_lines : BOOLEAN, print_words : BOOLEAN, input : Inputs]
\* -w on standard input
WordsOnlyArgs ==
    {[print_bytes |-> FALSE, print_chars |-> FALSE, print_lines |-> FALSE,
      print_words |-> TRUE, input |-> "stdin"]}
\* -c -m -l -w on standard input
EveryCounterArgs ==
    {[print_bytes |-> TRUE, print_chars |-> TRUE, print_lines |-> TRUE,
      print_words |-> TRUE, input |-> "stdin"]}

\* main up to the loop: the flags are resolved, the input is opened, the counters made
Setup(meta) ==
    /\ pc = "start"
    /\ print' = ResolveFlags(args)
    /\ metadata' = meta
    /\ byte_counter' = ByteCounter_new(meta)
    /\ char_counter' = CharCounter_new
    /\ newline_counter' = NewlineCounter_new
    /\ word_counter' = WordCounter_new
    /\ ccwc' = ccwc_new(meta)
    /\ pc' = "reading"
    /\ UNCHANGED <<args, warning, stdout, ccwc_stdout, fed, nchunks, last_read>>

\* the input is standard input: no metadata
OpenStdin ==
    /\ args.input = "stdin"
    /\ Setup(None)

\* File::open succeeds; fs::metadata(path).ok() is Some or None
OpenFile ==
    /\ args.input = "file"
    /\ \E meta \in {None} \cup {Some(n) : n \in 0..MaxHint} : Setup(meta)

\* a failing File::open after which the (empty) totals are printed all the same
OpenFails_prints_totals ==
    /\ pc = "start"
    /\ args.input = "file"
    /\ print' = ResolveFlags(args)
    /\ stdout' = <<(<<"bytes", 0>>)>>
    /\ ccwc_stdout' = <<(<<"bytes", 0>>)>>
    /\ pc' = "failed"
    /\ UNCHANGED <<args, metadata, byte_counter, char_counter, newline_counter,
                   word_counter, ccwc, warning, fed, nchunks, last_read>>
\* File::open fails: `?` returns the error from main
OpenFails ==
    /\ pc = "start"
    /\ args.input = "file"
    /\ print' = ResolveFlags(args)
    /\ pc' = "failed"
    /\ UNCHANGED <<args, metadata, byte_counter, char_counter, newline_counter,
                   word_counter, ccwc, warning, stdout, ccwc_stdout, fed, nchunks,
                   last_read>>

\* read() returns Ok(n) with n > 0: one pass through the loop body of both programs
ReadOk(chunk) ==
    /\ pc = "reading"
    /\ byte_counter' = feed_byte_counter(chunk)
    /\ char_counter' = feed_char_counter(chunk)
    /\ newline_counter' = feed_newline_counter(chunk)
    /\ word_counter' = feed_word_counter(chunk)
    /\ ccwc' = ccwc_loop_body(ccwc, chunk)
    /\ fed' = fed \o chunk
    /\ nchunks' = nchunks + 1
    /\ last_read' = "Ok"
    /\ UNCHANGED <<args, pc, print, metadata, warning, stdout, ccwc_stdout>>

\* what follows the loop in both programs: the warning (cc-wc) and the totals
AfterLoop ==
    /\ warning' = cc_wc_warns
    /\ stdout' = cc_wc_output
    /\ ccwc_stdout' = ccwc_output
    /\ pc' = "done"
    /\ UNCHANGED <<args, print, metadata, byte_counter, char_counter,
                   newline_counter, word_counter, ccwc, fed, nchunks>>

\* a zero-length read that does not leave the loop
ReadEof_keeps_reading ==
    /\ pc = "reading"
    /\ last_read # "Eof"
    /\ last_read' = "Eof"
    /\ UNCHANGED <<args, pc, print, metadata, byte_counter, char_counter,
                   newline_counter, word_counter, ccwc, warning, stdout, ccwc_stdout,
                   fed, nchunks>>
\* read() returns Ok(0): break
ReadEof ==
    /\ pc = "reading"
    /\ last_read' = "Eof"
    /\ AfterLoop

\* read() returns Err(_): `while let Ok(..)` does not match and the loop ends
ReadErr ==
    /\ pc = "reading"
    /\ last_read' = "Err"
    /\ AfterLoop

\* the source delivers a chunk over the byte set B, the stream staying within n bytes
ReadAny(B, n) ==
    \E k \in 1..Min(MaxChunk, n - Min(n, Len(fed))) :
        \E chunk \in [1..k -> B] : ReadOk(chunk)

\* the source delivers the next bytes of the stream s
ReadFrom(s) ==
    /\ IsPrefix(fed, s)
    /\ \E k \in 1..Min(MaxChunk, Len(s) - Len(fed)) :
           ReadOk(SubSeq(s, Len(fed) + 1, Len(fed) + k))

\* Spec: every selection of flags and every input; the stream is any stream over
\* CoreAlphabet of at most MaxLen bytes, or "hello world\n"
Init == InitWith(AllArgs)

Next ==
    \/ OpenStdin
    \/ OpenFile
    \/ OpenFails
    \/ ReadAny(CoreAlphabet, MaxLen)
    \/ ReadFrom(HelloWorld)
    \/ ReadEof
    \/ ReadErr

Spec == Init /\ [][Next]_vars

\* SpecLive: Spec, where the program always takes its next step and every read()
\* returns: main is one thread and the read is its only blocking call
SpecLive == Init /\ [][Next]_vars /\ WF_vars(Next)

\* SpecStream: all four counters enabled, any stream over Alphabet of at most
\* MaxStream bytes
InitStream == InitWith(EveryCounterArgs)

NextStream ==
    \/ OpenStdin
    \/ ReadAny(Alphabet, MaxStream)
    \/ ReadEof
    \/ ReadErr

SpecStream == InitStream /\ [][NextStream]_vars

\* The length a first byte announces: 1 for 0xxxxxxx, 2 for 110xxxxx, 3 for
\* 1110xxxx, 4 for 11110xxx, and 0 for a byte that starts no character.
EncodedLen(byte) ==
    IF byte < 128 THEN 1
    ELSE IF byte \in 192..223 THEN 2
    ELSE IF byte \in 224..239 THEN 3
    ELSE IF byte \in 240..247 THEN 4
    ELSE 0
IsTail(byte) == byte \in 128..191
AllTails(s) == \A i \in DOMAIN s : IsTail(s[i])

\* s read as a sequence of encoded characters, whole characters first:
\* ok: s is the beginning of such a sequence; complete: it ends on a character
\* boundary; n: the number of whole characters.  (Only lengths are looked at,
\* as in the code: every well-formed UTF-8 text is such a sequence.)
RECURSIVE Utf8Parse(_)
Utf8Parse(s) ==
    IF s = <<>> THEN [ok |-> TRUE, complete |-> TRUE, n |-> 0]
    ELSE LET k == EncodedLen(Head(s))
         IN  IF k = 0 THEN [ok |-> FALSE, complete |-> FALSE, n |-> 0]
             ELSE IF Len(s) < k
             THEN [ok |-> AllTails(Tail(s)), complete |-> FALSE, n |-> 0]
             ELSE IF ~AllTails(SubSeq(s, 2, k))
             THEN [ok |-> FALSE, complete |-> FALSE, n |-> 0]
             ELSE LET r == Utf8Parse(SubSeq(s, k + 1, Len(s)))
                  IN  [r EXCEPT !.n = @ + 1]
IsUtf8Prefix(s) == Utf8Parse(s).ok
WellFormed(s) == Utf8Parse(s).ok /\ Utf8Parse(s).complete

\* SpecUtf8: all four counters enabled, the source delivers well-formed UTF-8 of
\* at most MaxUtf8 bytes (it may stop, or fail, anywhere)
NextUtf8 ==
    \/ OpenStdin
    \/ ReadAny(Utf8Alphabet, MaxUtf8) /\ IsUtf8Prefix(fed')
    \/ ReadEof
    \/ ReadErr

SpecUtf8 == InitStream /\ [][NextUtf8]_vars

\* SpecByte: the word counters alone, fed one byte out of all 256
InitByte == InitWith(WordsOnlyArgs)

NextByte ==
    \/ OpenStdin
    \/ ReadAny(AllBytes, 1)
    \/ ReadEof
    \/ ReadErr

SpecByte == InitByte /\ [][NextByte]_vars

----------------------------------------------------------------------------
(* What the claims speak of *)

Scanning == pc \in {"reading", "done"}
AtEof == pc = "done" /\ last_read = "Eof"

\* the total printed under name k is v
Shows(out, k, v) == \E i \in DOMAIN out : out[i] = <<k, v>>
\* some total is printed under name k
Prints(out, k) == \E i \in DOMAIN out : out[i][1] = k

\* the whitespace bytes of the specification: 0x09..0x0D and 0x20
WhitespaceSet == {9, 10, 11, 12, 13, 32}

\* the number of maximal runs of non-whitespace bytes of s
WordRuns(s) ==
    Cardinality({i \in DOMAIN s :
        s[i] \notin WhitespaceSet /\ (i = 1 \/ s[i - 1] \in WhitespaceSet)})

\* the number of 0x0A bytes of s
Newlines(s) == Cardinality({i \in DOMAIN s : s[i] = 10})

----------------------------------------------------------------------------
(* C1 *)

\* C1: once a read() has returned an error the run is a failure and no totals
\* are printed, by either program.
C1_ReadErrorAborts ==
    last_read = "Err" => (pc = "failed" /\ stdout = <<>> /\ ccwc_stdout = <<>>)

----------------------------------------------------------------------------
(* C2 *)

\* C2: after one byte, each word counter is outside a word exactly when the byte
\* is one of 0x09, 0x0A, 0x0B, 0x0C, 0x0D, 0x20, for every byte 0..255.
C2_WhitespaceClassification ==
    (pc = "reading" /\ Len(fed) = 1 /\ print.print_words) =>
        /\ word_counter.in_word = (fed[1] \notin WhitespaceSet)
        /\ ccwc.in_word = (fed[1] \notin WhitespaceSet)

----------------------------------------------------------------------------
(* C3 *)

\* C3: whatever the chunks were, WordCounter, NewlineCounter and CharCounter are
\* in the state one feed of the whole stream as a single chunk leaves them in,
\* and at the end the word, line and character totals printed are those.
C3_ChunkBoundaryInvariance ==
    Scanning =>
        /\ word_counter = count_words(WordCounter_new, fed)
        /\ newline_counter = count_newlines(NewlineCounter_new, fed)
        /\ char_counter = count_chars(CharCounter_new, fed)
        /\ pc = "done" =>
              /\ Shows(stdout, "words", count_words(WordCounter_new, fed).word_count)
              /\ Shows(stdout, "lines", count_newlines(NewlineCounter_new, fed).line_count)
              /\ Shows(stdout, "chars", count_chars(CharCounter_new, fed).char_count)

\* 'a' and a 3-byte character, delivered one byte per chunk: every boundary falls
\* inside the word and two of them inside the character
C3_Witness ==
    /\ AtEof
    /\ fed = <<97, 226, 128, 128>>
    /\ nchunks = 4
    /\ stdout = << <<"lines", 0>>, <<"words", 1>>, <<"chars", 2>>, <<"bytes", 4>> >>

----------------------------------------------------------------------------
(* C4 *)

\* the number of continuation bytes s ends with
RECURSIVE TrailingTails(_)
TrailingTails(s) ==
    IF s = <<>> \/ ~IsTail(s[Len(s)]) THEN 0
    ELSE 1 + TrailingTails(SubSeq(s, 1, Len(s) - 1))

\* s without the unfinished character it ends with: its lead byte and the
\* continuation bytes after it
WithoutUnfinished(s) == SubSeq(s, 1, Len(s) - TrailingTails(s) - 1)

\* C4: at end-of-stream with continuation bytes still expected, the warning is
\* written and the character total printed is that of the stream before the
\* unfinished character.
C4_TruncatedTrailingChar ==
    (AtEof /\ char_counter.remaining_bytes_in_char # 0) =>
        /\ warning
        /\ Shows(stdout, "chars",
                 count_chars(CharCounter_new, WithoutUnfinished(fed)).char_count)

\* 'a', then a 3-byte lead with one continuation byte only
C4_Witness ==
    /\ AtEof
    /\ fed = <<97, 226, 128>>
    /\ char_counter.remaining_bytes_in_char = 1
    /\ ~char_counter.invalid_chars_found
    /\ warning
    /\ Shows(stdout, "chars", 1)

----------------------------------------------------------------------------
(* C5 *)

\* C5: on a well-formed stream CharCounter holds the number of encoded
\* characters, no flag and no pending byte, and at the end no warning is written
\* and that number is printed.
C5_WellFormedCount ==
    (Scanning /\ WellFormed(fed)) =>
        /\ char_counter.char_count = Utf8Parse(fed).n
        /\ ~char_counter.invalid_chars_found
        /\ char_counter.remaining_bytes_in_char = 0
        /\ pc = "done" => (~warning /\ Shows(stdout, "chars", Utf8Parse(fed).n))

\* a 2-, a 1-, a 4- and a 3-byte character, one byte per chunk: 4 characters in
\* 10 bytes
C5_Witness ==
    /\ AtEof
    /\ fed = <<195, 128, 97, 240, 128, 128, 128, 226, 128, 128>>
    /\ nchunks = 10
    /\ ~warning
    /\ Shows(stdout, "chars", 4)
    /\ Shows(stdout, "bytes", 10)

----------------------------------------------------------------------------
(* C6 *)

\* the byte total of a run: the size hint when there is one, else the bytes of
\* the chunks fed to the byte counter
ByteTotal == IF metadata # None THEN metadata[1]
             ELSE IF print.print_bytes THEN Len(fed) ELSE 0

\* C6: the mode of ByteCounter is the one set at construction (a hint or none);
\* with a hint H the count is H whatever was fed, with none it is the sum of the
\* lengths of the chunks fed; that is the byte total printed, by ccwc too.
C6_ByteCounterModes ==
    Scanning =>
        /\ byte_counter.metadata_found = (metadata # None)
        /\ byte_counter.byte_count = ByteTotal
        /\ ccwc.bytes = ByteTotal
        /\ (pc = "done" /\ print.print_bytes) =>
              (Shows(stdout, "bytes", ByteTotal) /\ Shows(ccwc_stdout, "bytes", ByteTotal))

\* a hint of 2 with 3 bytes read in 2 chunks: 2 is printed
C6_Witness ==
    /\ AtEof
    /\ print.print_bytes
    /\ metadata = Some(2)
    /\ Len(fed) = 3
    /\ nchunks = 2
    /\ Shows(stdout, "bytes", 2)
    /\ ~Shows(stdout, "bytes", 3)

----------------------------------------------------------------------------
(* C7 *)

\* C7: the word total of each program is the number of maximal runs of
\* non-whitespace bytes of the stream, whitespace being 0x09..0x0D and 0x20.
C7_WordsAreRuns ==
    Scanning =>
        /\ word_counter.word_count = WordRuns(fed)
        /\ ccwc.words = WordRuns(fed)

----------------------------------------------------------------------------
(* C8 *)

\* C8: the line total of each program is the number of 0x0A bytes of the
\* stream, and that is the total printed.
C8_LinesAreNewlineBytes ==
    Scanning =>
        /\ newline_counter.line_count = Newlines(fed)
        /\ ccwc.lines = Newlines(fed)
        /\ pc = "done" =>
              (Shows(stdout, "lines", Newlines(fed)) /\ Shows(ccwc_stdout, "lines", Newlines(fed)))

\* "a\na" in two chunks: no trailing newline, one line
C8_Witness ==
    /\ AtEof
    /\ fed = <<97, 10, 97>>
    /\ nchunks = 2
    /\ Shows(stdout, "lines", 1)
    /\ Shows(ccwc_stdout, "lines", 1)

----------------------------------------------------------------------------
(* C9 *)

CounterNames == {"bytes", "chars", "lines", "words"}
\* the counters a record of four flags selects
Selected(f) ==
    {k \in CounterNames : \/ k = "bytes" /\ f.print_bytes
                          \/ k = "chars" /\ f.print_chars
                          \/ k = "lines" /\ f.print_lines
                          \/ k = "words" /\ f.print_words}

----------------------------------------------------------------------------
(* C10 *)

\* C10: each enabled counter of cc-wc holds what the stream alone determines,
\* whatever the other flags and whatever CharCounter has flagged, and those are
\* the totals printed; "hello world\n" with all four counters and no size hint
\* prints lines 1, words 2, chars 12, bytes 12.
C10_CountersIndependent ==
    Scanning =>
        /\ print.print_lines => newline_counter = count_newlines(NewlineCounter_new, fed)
        /\ print.print_words => word_counter = count_words(WordCounter_new, fed)
        /\ print.print_chars => char_counter = count_chars(CharCounter_new, fed)
        /\ print.print_bytes => byte_counter.byte_count = ByteTotal
        /\ pc = "done" =>
              /\ print.print_lines =>
                    Shows(stdout, "lines", count_newlines(NewlineCounter_new, fed).line_count)
              /\ print.print_words =>
                    Shows(stdout, "words", count_words(WordCounter_new, fed).word_count)
              /\ print.print_chars =>
                    Shows(stdout, "chars", count_chars(CharCounter_new, fed).char_count)
              /\ print.print_bytes => Shows(stdout, "bytes", ByteTotal)
        /\ (pc = "done" /\ fed = HelloWorld /\ Selected(print) = CounterNames
               /\ metadata = None) =>
              stdout = << <<"lines", 1>>, <<"words", 2>>, <<"chars", 12>>, <<"bytes", 12>> >>

\* all four counters, a continuation byte with no lead and then "a\n": the flag
\* is set and the later bytes are counted by every counter
C10_Witness ==
    /\ AtEof
    /\ Selected(print) = CounterNames
    /\ metadata = None
    /\ fed = <<128, 97, 10>>
    /\ char_counter.invalid_chars_found
    /\ warning
    /\ stdout = << <<"lines", 1>>, <<"words", 1>>, <<"chars", 2>>, <<"bytes", 3>> >>

----------------------------------------------------------------------------
(* C11 *)

\* C11: when the file cannot be opened the run has failed with nothing read, no
\* counter fed, no warning and nothing printed, by either program.
C11_OpenFailureAborts ==
    pc = "failed" =>
        /\ fed = <<>> /\ nchunks = 0 /\ last_read = "none"
        /\ byte_counter = ByteCounter_new(None)
        /\ char_counter = CharCounter_new
        /\ newline_counter = NewlineCounter_new
        /\ word_counter = WordCounter_new
        /\ ccwc = ccwc_new(None)
        /\ ~warning
        /\ stdout = <<>>
        /\ ccwc_stdout = <<>>

C11_Witness ==
    /\ pc = "failed"
    /\ args.input = "file"
    /\ Selected(args) = CounterNames
    /\ stdout = <<>>

----------------------------------------------------------------------------
(* C12 *)

\* the totals of the four counters of cc-wc
Totals == <<byte_counter.byte_count, char_counter.char_count,
            newline_counter.line_count, word_counter.word_count>>

\* C12 as stated: after any prefix of the chunks, each enabled counter, the byte
\* counter included, holds exactly what the chunks fed so far amount to.
C12_TotalsReflectPrefix ==
    Scanning =>
        /\ print.print_bytes => byte_counter.byte_count = Len(fed)
        /\ print.print_chars => char_counter = count_chars(CharCounter_new, fed)
        /\ print.print_lines => newline_counter.line_count = Newlines(fed)
        /\ print.print_words => word_counter = count_words(WordCounter_new, fed)

\* C12 as amended: the char, line and word counters hold exactly what the chunks
\* fed so far amount to, the byte counter does so when there is no size hint and
\* holds the hint from its construction on when there is one, and no total
\* ever decreases.
C12_TotalsReflectPrefixOrHint ==
    /\ [](Scanning =>
            /\ print.print_bytes =>
                  byte_counter.byte_count = IF metadata = None THEN Len(fed)
                                            ELSE metadata[1]
            /\ print.print_chars => char_counter = count_chars(CharCounter_new, fed)
            /\ print.print_lines => newline_counter.line_count = Newlines(fed)
            /\ print.print_words => word_counter = count_words(WordCounter_new, fed))
    /\ [][\A i \in 1..4 : Totals'[i] >= Totals[i]]_vars

\* a size hint of 2 with one byte read: the byte counter holds 2
C12_Witness ==
    /\ pc = "reading"
    /\ Selected(print) = CounterNames
    /\ metadata = Some(2)
    /\ fed = <<10>>
    /\ Totals = <<2, 1, 1, 0>>

----------------------------------------------------------------------------
(* C13 *)

\* C13: a one-byte chunk arriving with a sequence pending: an ASCII byte adds
\* one to the count and sets remaining to 0, a lead byte adds nothing and sets
\* remaining to its length less one, and neither touches invalid_chars_found.
C13_PendingSilentlyDiscarded ==
    [][(/\ Len(fed') = Len(fed) + 1
        /\ print.print_chars
        /\ char_counter.remaining_bytes_in_char > 0) =>
            LET byte == fed'[Len(fed')]
            IN  /\ byte < 128 =>
                      char_counter' =
                          [char_count |-> char_counter.char_count + 1,
                           remaining_bytes_in_char |-> 0,
                           invalid_chars_found |-> char_counter.invalid_chars_found]
                /\ EncodedLen(byte) >= 2 =>
                      char_counter' =
                          [char_count |-> char_counter.char_count,
                           remaining_bytes_in_char |-> EncodedLen(byte) - 1,
                           invalid_chars_found |-> char_counter.invalid_chars_found]
      ]_vars

\* a 4-byte lead, cut short by a 3-byte lead, cut short by 'a': one character,
\* no flag, no warning
C13_Witness ==
    /\ AtEof
    /\ fed = <<240, 128, 226, 97>>
    /\ nchunks = 4
    /\ char_counter = [char_count |-> 1, remaining_bytes_in_char |-> 0,
                       invalid_chars_found |-> FALSE]
    /\ ~warning

----------------------------------------------------------------------------
(* C14 *)

\* C14: a one-byte chunk that is invalid where it stands: a continuation byte
\* with nothing pending sets the flag and changes nothing else; a byte
\* 11111xxx sets the flag and remaining to 0; neither changes the count.
C14_InvalidByteFlagged ==
    [][(Len(fed') = Len(fed) + 1 /\ print.print_chars) =>
            LET byte == fed'[Len(fed')]
            IN  /\ (IsTail(byte) /\ char_counter.remaining_bytes_in_char = 0) =>
                      char_counter' =
                          [char_count |-> char_counter.char_count,
                           remaining_bytes_in_char |-> 0,
                           invalid_chars_found |-> TRUE]
                /\ byte \in 248..255 =>
                      char_counter' =
                          [char_count |-> char_counter.char_count,
                           remaining_bytes_in_char |-> 0,
                           invalid_chars_found |-> TRUE]
      ]_vars

\* a 3-byte lead, 0xFF, a continuation byte, then 'a': both invalid bytes are
\* passed over, the scan goes on and 'a' is counted
C14_Witness ==
    /\ AtEof
    /\ fed = <<226, 255, 128, 97>>
    /\ nchunks = 4
    /\ char_counter = [char_count |-> 1, remaining_bytes_in_char |-> 0,
                       invalid_chars_found |-> TRUE]
    /\ warning

----------------------------------------------------------------------------
(* C15 *)

\* s holds a byte that is invalid wherever it stands (11111xxx) or a
\* continuation byte at the start or right after an ASCII byte
HasInvalidByte(s) ==
    \E i \in DOMAIN s :
        \/ s[i] \in 248..255
        \/ IsTail(s[i]) /\ (i = 1 \/ s[i - 1] < 128)

\* C15: invalid_chars_found never goes from true to false, and at the end of a
\* run whose CharCounter was fed an invalid byte the flag is set and the warning
\* written.
C15_InvalidFlagSticky ==
    /\ [][char_counter.invalid_chars_found => char_counter'.invalid_chars_found]_vars
    /\ []((Scanning /\ print.print_chars /\ HasInvalidByte(fed)) =>
            /\ char_counter.invalid_chars_found
            /\ pc = "done" => warning)

\* 0xFF first, then a whole 2-byte character and 'a': the warning is written
C15_Witness ==
    /\ AtEof
    /\ fed = <<255, 195, 128, 97>>
    /\ nchunks >= 3
    /\ char_counter = [char_count |-> 2, remaining_bytes_in_char |-> 0,
                       invalid_chars_found |-> TRUE]
    /\ warning

----------------------------------------------------------------------------
(* C16 *)

\* the continuation bytes s still lacks: s ends with a lead byte and fewer
\* continuation bytes than the lead byte announces
PendingBytes(s) ==
    LET k == TrailingTails(s)
        p == Len(s) - k
    IN  IF p >= 1 /\ EncodedLen(s[p]) >= 2 /\ k < EncodedLen(s[p]) - 1
        THEN EncodedLen(s[p]) - 1 - k
        ELSE 0

\* C16: remaining_bytes_in_char is in 0..3 and is the number of continuation
\* bytes the stream so far still lacks: non-zero exactly when the stream ends
\* with a lead byte and fewer continuation bytes than it needs.
C16_RemainingTracksPending ==
    /\ char_counter.remaining_bytes_in_char \in 0..3
    /\ (Scanning /\ print.print_chars) =>
          char_counter.remaining_bytes_in_char = PendingBytes(fed)

\* 0xFF, then a 4-byte lead with two of its three continuation bytes
C16_Witness ==
    /\ pc = "reading"
    /\ fed = <<255, 240, 128, 128>>
    /\ char_counter.remaining_bytes_in_char = 1

----------------------------------------------------------------------------
(* C17 *)

\* the chunk a step delivers
Delivered == SubSeq(fed', Len(fed) + 1, Len(fed'))

\* C17: a counter that is not enabled stays as constructed; each chunk delivered
\* is fed once to each enabled counter and to no other; and the enabled counters
\* have seen the chunks in the order of arrival.
C17_DispatchOncePerEnabledCounter ==
    /\ [](Scanning =>
            /\ ~print.print_bytes => byte_counter = ByteCounter_new(metadata)
            /\ ~print.print_chars => char_counter = CharCounter_new
            /\ ~print.print_lines => newline_counter = NewlineCounter_new
            /\ ~print.print_words => word_counter = WordCounter_new
            /\ ~print.print_lines => ccwc.lines = 0
            /\ ~print.print_words => (ccwc.words = 0 /\ ~ccwc.in_word)
            /\ print.print_chars => char_counter = count_chars(CharCounter_new, fed)
            /\ print.print_words => word_counter = count_words(WordCounter_new, fed))
    /\ [][fed' # fed =>
            /\ pc = "reading" /\ pc' = "reading"
            /\ nchunks' = nchunks + 1
            /\ byte_counter' = IF print.print_bytes /\ metadata = None
                               THEN [byte_counter EXCEPT !.byte_count = @ + Len(Delivered)]
                               ELSE byte_counter
            /\ char_counter' = IF print.print_chars
                               THEN count_chars(char_counter, Delivered) ELSE char_counter
            /\ newline_counter'.line_count =
                  newline_counter.line_count
                    + (IF print.print_lines THEN Newlines(Delivered) ELSE 0)
            /\ word_counter' = IF print.print_words
                               THEN count_words(word_counter, Delivered) ELSE word_counter
         ]_vars

\* -l -w only, three bytes in two chunks, the first a stray continuation byte:
\* CharCounter and ByteCounter are as constructed and nothing warns
C17_Witness ==
    /\ AtEof
    /\ Selected(print) = {"lines", "words"}
    /\ metadata = None
    /\ fed = <<128, 10, 97>>
    /\ nchunks = 2
    /\ char_counter = CharCounter_new
    /\ byte_counter = ByteCounter_new(None)
    /\ stdout = << <<"lines", 1>>, <<"words", 2>> >>

----------------------------------------------------------------------------
(* C18 *)

\* C18: the run ends (the totals are printed, or the open failed); a
\* zero-length read is the last read and puts the scanner in its final state;
\* from the final state no step is taken, so nothing is read and no counter
\* changes.
C18_LoopTerminates ==
    /\ <>(pc \in {"done", "failed"})
    /\ [](last_read = "Eof" => pc = "done")
    /\ [][pc # "done"]_vars

\* three chunks, then the zero-length read
C18_Witness ==
    /\ AtEof
    /\ nchunks = 3
    /\ Len(fed) = 3
    /\ stdout # <<>>

----------------------------------------------------------------------------
(* C19 *)

\* C19: with chars not selected, the two programs print the same line, word
\* and byte totals.
C19_ProgramsAgree ==
    (pc = "done" /\ ~print.print_chars) => ccwc_stdout = stdout

----------------------------------------------------------------------------
(* C20 *)

\* what CharCounter would hold had it been fed the whole stream
CharsOf(s) == count_chars(CharCounter_new, s)

\* C20: at the end of a run of cc-wc the warning is written exactly when chars
\* is enabled and the stream leaves CharCounter flagged or inside a sequence;
\* with chars not enabled CharCounter is as constructed and nothing is written.
C20_WarningOnlyWithChars ==
    pc = "done" =>
        /\ warning <=>
              /\ print.print_chars
              /\ \/ char_counter.invalid_chars_found
                 \/ char_counter.remaining_bytes_in_char # 0
        /\ warning <=>
              /\ print.print_chars
              /\ \/ CharsOf(fed).invalid_chars_found
                 \/ CharsOf(fed).remaining_bytes_in_char # 0
        /\ ~print.print_chars => char_counter = CharCounter_new

\* no flag given (chars not enabled): two stray continuation bytes and an
\* unfinished 3-byte lead, and no warning
C20_Witness ==
    /\ AtEof
    /\ Selected(args) = {}
    /\ fed = <<128, 128, 226>>
    /\ CharsOf(fed).invalid_chars_found
    /\ CharsOf(fed).remaining_bytes_in_char = 2
    /\ ~warning

====
